---- MODULE Spec2Model ----
(***************************************************************************)
(* Model of vacay's main(): the PTO accrual-and-affordability simulation.  *)
(*                                                                         *)
(* Dates are day numbers: day 1 is 2024-01-01 (a Monday), so day n of the  *)
(* model is the n-th of January 2024 and Weekday(d) = d % 7 with Sunday 0. *)
(* Hours are integers (the f32 balance is exact on the values used).       *)
(* A Vacation is its (start, end) pair; the optional name only breaks ties *)
(* between equal pairs in the sort and is copied to the table row.         *)
(***************************************************************************)
EXTENDS Integers, Sequences, FiniteSets

VARIABLES
    today,                  \* chrono::Local::now().date_naive()
    pto_bank,               \* args.pto_bank
    pto_accrual_per_week,   \* args.pto_hrs_per_wk
    holidays,               \* config.holidays
    sched,                  \* sched.vacations as read from the schedule file
    vacations,              \* the sorted, retained list
    pto_balance,
    current_date,
    rows,
    idx,                    \* position of the for loop in vacations
    pto_days_needed,
    pto_hours_needed,
    date,
    vacation_date,
    accrued,                \* the accrual lines main prints (--verbose)
    pc

vars == <<today, pto_bank, pto_accrual_per_week, holidays, sched, vacations,
          pto_balance, current_date, rows, idx, pto_days_needed,
          pto_hours_needed, date, vacation_date, accrued, pc>>

----------------------------------------------------------------------------
(* Program constants *)

DaysPerWeek == 7
HoursPerDay == 8

Sun == 0
Sat == 6

StatusOk == "ok"       \* the check mark
StatusNo == "no"       \* the cross

----------------------------------------------------------------------------
(* Bounds of the model *)

MaxDate == 14          \* latest start/end of a vacation under Spec
MaxSpan == 2           \* longest end - start of a vacation under Spec
MaxVacations == 2      \* longest schedule under Spec
SingleMaxDate == 19    \* latest start/end of the vacation under SpecSingle
SingleMaxSpan == 4     \* longest end - start under SpecSingle

Banks == {-8, 0, 40}
Rates == {8, 16}
HolidayPool == {9}
SingleHolidayPool == {3, 14, 17}

Windows(maxDate, maxSpan) ==
    {v \in [start : 1..maxDate, end : 1..maxDate] :
        v.start <= v.end /\ v.end <= v.start + maxSpan}

SeqsUpTo(S, n) == UNION {[1..k -> S] : k \in 0..n}

----------------------------------------------------------------------------
(* Calendar primitives *)

Weekday(d) == d % DaysPerWeek

Succ(d) == d + 1

----------------------------------------------------------------------------
(* Vacation ordering, sort and retain *)

VacLess(a, b) == a.start < b.start \/ (a.start = b.start /\ a.end < b.end)

RECURSIVE Insert(_, _)
Insert(s, v) ==
    IF s = <<>> THEN <<v>>
    ELSE IF VacLess(v, Head(s)) THEN <<v>> \o s
    ELSE <<Head(s)>> \o Insert(Tail(s), v)

RECURSIVE SortUnstable(_)
SortUnstable(s) ==
    IF s = <<>> THEN <<>> ELSE Insert(SortUnstable(Tail(s)), Head(s))

KeepsInclusive(vac, t) == vac.end >= t
Keeps(vac, t) == vac.end > t

RetainAll(s, t) == s
Retain(s, t) == SelectSeq(s, LAMBDA vac : Keeps(vac, t))

----------------------------------------------------------------------------
(* Pieces of the per-vacation loop *)

FirstCursorNoSucc(t) == t
FirstCursor(t) == Succ(t)

IsChargeableNoHoliday(d, hs) == Weekday(d) # Sat /\ Weekday(d) # Sun
IsChargeable(d, hs) ==
    /\ Weekday(d) # Sat /\ Weekday(d) # Sun
    /\ d \notin hs

CountContinues(d, vac) == d <= vac.end

HoursNeeded(days) == days * HoursPerDay

AccruesBeforeInclusive(cur, vac) == cur <= vac.start
AccruesBefore(cur, vac) == cur < vac.start

NextWeekFortnight(d) == d + 2 * DaysPerWeek
NextWeekSixDays(d) == d + DaysPerWeek - 1
NextWeek(d) == d + DaysPerWeek

EnoughStrict(balance, hours) == balance > hours
Enough(balance, hours) == balance >= hours

DeductAlways(balance, hours) == balance - hours
Deduct(balance, hours) == IF Enough(balance, hours) THEN balance - hours ELSE balance

StatusAfterDeduct(balance, hours) ==
    IF Enough(Deduct(balance, hours), hours) THEN StatusOk ELSE StatusNo
Status(balance, hours) == IF Enough(balance, hours) THEN StatusOk ELSE StatusNo

ScanContinuesExclusive(d, vac) == d < vac.end
ScanContinues(d, vac) == d <= vac.end

----------------------------------------------------------------------------
(* Initial states *)

InitLocals ==
    /\ vacations = <<>>
    /\ pto_balance = 0
    /\ current_date = 0
    /\ rows = <<>>
    /\ idx = 1
    /\ pto_days_needed = 0
    /\ pto_hours_needed = 0
    /\ date = 0
    /\ vacation_date = 0
    /\ accrued = <<>>
    /\ pc = "start"

Init ==
    /\ today \in 1..DaysPerWeek
    /\ pto_bank \in Banks
    /\ pto_accrual_per_week \in Rates
    /\ holidays \in SUBSET HolidayPool
    /\ sched \in SeqsUpTo(Windows(MaxDate, MaxSpan), MaxVacations)
    /\ InitLocals

SingleInit ==
    /\ today \in 1..DaysPerWeek
    /\ pto_bank \in {0, 40}
    /\ pto_accrual_per_week = 16
    /\ holidays \in SUBSET SingleHolidayPool
    /\ sched \in SeqsUpTo(Windows(SingleMaxDate, SingleMaxSpan), 1)
    /\ InitLocals

----------------------------------------------------------------------------
(* Actions *)

inputs == <<today, pto_bank, pto_accrual_per_week, holidays, sched>>

vacation == vacations[idx]

SortRetain ==
    /\ pc = "start"
    /\ vacations' = Retain(SortUnstable(sched), today)
    /\ pc' = "check_empty"
    /\ UNCHANGED <<inputs, pto_balance, current_date, rows, idx, pto_days_needed,
                   pto_hours_needed, date, vacation_date, accrued>>

ExitNoVacations ==
    /\ pc = "check_empty"
    /\ Len(vacations) = 0
    /\ pc' = "exit0"
    /\ UNCHANGED <<inputs, vacations, pto_balance, current_date, rows, idx,
                   pto_days_needed, pto_hours_needed, date, vacation_date, accrued>>

InitSimulation ==
    /\ pc = "check_empty"
    /\ Len(vacations) # 0
    /\ pto_balance' = pto_bank
    /\ current_date' = FirstCursor(today)
    /\ pc' = "find_sunday"
    /\ UNCHANGED <<inputs, vacations, rows, idx, pto_days_needed,
                   pto_hours_needed, date, vacation_date, accrued>>

FindSundayStep ==
    /\ pc = "find_sunday"
    /\ Weekday(current_date) # Sun
    /\ current_date' = Succ(current_date)
    /\ UNCHANGED <<inputs, vacations, pto_balance, rows, idx, pto_days_needed,
                   pto_hours_needed, date, vacation_date, accrued, pc>>

FindSundayDone ==
    /\ pc = "find_sunday"
    /\ Weekday(current_date) = Sun
    /\ rows' = <<>>
    /\ idx' = 1
    /\ pc' = "for"
    /\ UNCHANGED <<inputs, vacations, pto_balance, current_date, pto_days_needed,
                   pto_hours_needed, date, vacation_date, accrued>>

ForNext ==
    /\ pc = "for"
    /\ idx <= Len(vacations)
    /\ pto_days_needed' = 0
    /\ date' = vacation.start
    /\ pc' = "count"
    /\ UNCHANGED <<inputs, vacations, pto_balance, current_date, rows, idx,
                   pto_hours_needed, vacation_date, accrued>>

ForDone ==
    /\ pc = "for"
    /\ idx > Len(vacations)
    /\ pc' = "done"
    /\ UNCHANGED <<inputs, vacations, pto_balance, current_date, rows, idx,
                   pto_days_needed, pto_hours_needed, date, vacation_date, accrued>>

CountStep ==
    /\ pc = "count"
    /\ CountContinues(date, vacation)
    /\ pto_days_needed' =
          IF IsChargeable(date, holidays) THEN pto_days_needed + 1 ELSE pto_days_needed
    /\ date' = Succ(date)
    /\ UNCHANGED <<inputs, vacations, pto_balance, current_date, rows, idx,
                   pto_hours_needed, vacation_date, accrued, pc>>

CountDone ==
    /\ pc = "count"
    /\ ~CountContinues(date, vacation)
    /\ pto_hours_needed' = HoursNeeded(pto_days_needed)
    /\ pc' = "accrue"
    /\ UNCHANGED <<inputs, vacations, pto_balance, current_date, rows, idx,
                   pto_days_needed, date, vacation_date, accrued>>

AccrueStep ==
    /\ pc = "accrue"
    /\ AccruesBefore(current_date, vacation)
    /\ pto_balance' = pto_balance + pto_accrual_per_week
    /\ accrued' = Append(accrued, [pass |-> "before", date |-> current_date, vac |-> idx])
    /\ current_date' = NextWeek(current_date)
    /\ UNCHANGED <<inputs, vacations, rows, idx, pto_days_needed,
                   pto_hours_needed, date, vacation_date, pc>>

CheckStatus ==
    /\ pc = "accrue"
    /\ ~AccruesBefore(current_date, vacation)
    /\ pto_balance' = Deduct(pto_balance, pto_hours_needed)
    /\ rows' = Append(rows, [start  |-> vacation.start,
                             end    |-> vacation.end,
                             days   |-> pto_days_needed,
                             hours  |-> pto_hours_needed,
                             status |-> Status(pto_balance, pto_hours_needed)])
    /\ vacation_date' = vacation.start
    /\ pc' = "scan"
    /\ UNCHANGED <<inputs, vacations, current_date, idx, pto_days_needed,
                   pto_hours_needed, date, accrued>>

ScanStep ==
    /\ pc = "scan"
    /\ ScanContinues(vacation_date, vacation)
    /\ IF Weekday(vacation_date) = Sun
         THEN /\ pto_balance' = pto_balance + pto_accrual_per_week
              /\ accrued' = Append(accrued,
                     [pass |-> "during", date |-> vacation_date, vac |-> idx])
         ELSE UNCHANGED <<pto_balance, accrued>>
    /\ vacation_date' = Succ(vacation_date)
    /\ UNCHANGED <<inputs, vacations, current_date, rows, idx, pto_days_needed,
                   pto_hours_needed, date, pc>>

ScanDone ==
    /\ pc = "scan"
    /\ ~ScanContinues(vacation_date, vacation)
    /\ current_date' = Succ(vacation.end)
    /\ pc' = "resync"
    /\ UNCHANGED <<inputs, vacations, pto_balance, rows, idx, pto_days_needed,
                   pto_hours_needed, date, vacation_date, accrued>>

ResyncStep ==
    /\ pc = "resync"
    /\ Weekday(current_date) # Sun
    /\ current_date' = Succ(current_date)
    /\ UNCHANGED <<inputs, vacations, pto_balance, rows, idx, pto_days_needed,
                   pto_hours_needed, date, vacation_date, accrued, pc>>

ResyncDone ==
    /\ pc = "resync"
    /\ Weekday(current_date) = Sun
    /\ idx' = idx + 1
    /\ pc' = "for"
    /\ UNCHANGED <<inputs, vacations, pto_balance, current_date, rows,
                   pto_days_needed, pto_hours_needed, date, vacation_date, accrued>>

Next ==
    \/ SortRetain
    \/ ExitNoVacations
    \/ InitSimulation
    \/ FindSundayStep
    \/ FindSundayDone
    \/ ForNext
    \/ ForDone
    \/ CountStep
    \/ CountDone
    \/ AccrueStep
    \/ CheckStatus
    \/ ScanStep
    \/ ScanDone
    \/ ResyncStep
    \/ ResyncDone

Spec == Init /\ [][Next]_vars

SpecSingle == SingleInit /\ [][Next]_vars

\* main is one sequential thread: it takes its next step whenever it has one.
FairSpec == Init /\ [][Next]_vars /\ WF_vars(Next)

----------------------------------------------------------------------------
(* Vocabulary of the properties *)

Terminated == pc \in {"done", "exit0"}

Simulating == pc \notin {"start", "check_empty", "exit0"}

\* The affordability check of the current vacation is the next step.
AtCheck == pc = "accrue" /\ ~(current_date < vacations[idx].start)

\* The check of the current vacation has just been made.
JustChecked == pc = "scan" /\ vacation_date = vacations[idx].start

\* The balance the program holds: args.pto_bank until pto_balance is declared.
HeldBalance == IF Simulating THEN pto_balance ELSE pto_bank

SkiTrip == [start |-> 15, end |-> 19]

Scenario(bank) ==
    /\ today = 1
    /\ pto_bank = bank
    /\ pto_accrual_per_week = 16
    /\ holidays = {}
    /\ sched = <<SkiTrip>>

BeforeEvent(d) == [pass |-> "before", date |-> d, vac |-> 1]

WorkDates(v, hs) ==
    {d \in v.start..v.end : Weekday(d) # Sat /\ Weekday(d) # Sun /\ d \notin hs}

RECURSIVE SumAffordable(_)
SumAffordable(rs) ==
    IF rs = <<>> THEN 0
    ELSE (IF Head(rs).status = StatusOk THEN Head(rs).hours ELSE 0)
         + SumAffordable(Tail(rs))

Occurrences(s, v) == Cardinality({i \in DOMAIN s : s[i].start = v.start /\ s[i].end = v.end})

\* The first Sunday strictly later than d.
FirstSundayAfter(d) == CHOOSE s \in (d + 1)..(d + DaysPerWeek) : Weekday(s) = Sun

\* The in-vacation scan of vacation k has gone past date d.
ScannedPast(k, d) ==
    \/ k < idx
    \/ k = idx /\ pc = "resync"
    \/ k = idx /\ pc = "scan" /\ vacation_date > d

\* Every retained vacation starts after today and after the previous one ends.
DisjointFuture ==
    \A k \in DOMAIN vacations :
        /\ today < vacations[k].start
        /\ k > 1 => vacations[k - 1].end < vacations[k].start

SundaysIn(a, b) == {d \in a..b : Weekday(d) = Sun}

FutureVacations == {i \in DOMAIN sched : sched[i].end > today}

Events(P(_)) == {i \in DOMAIN accrued : P(accrued[i])}

----------------------------------------------------------------------------
(* Properties *)

\* C1 as stated: in the ski-trip scenario with bank 40, exactly one Sunday
\* (day 7) accrues before the trip, the balance at the check is 56, the trip
\* costs 5 days / 40 hours and is affordable, and the balance after the
\* deduction and at the end is 16.
C1_OneSundayBalance56 ==
    Scenario(40) =>
        /\ AtCheck => pto_balance = 56 /\ accrued = <<BeforeEvent(7)>>
        /\ rows # <<>> =>
              rows[1].days = 5 /\ rows[1].hours = 40 /\ rows[1].status = StatusOk
        /\ JustChecked => pto_balance = 16
        /\ pc = "done" => pto_balance = 16

\* C1 amended: in the ski-trip scenario with bank 40, two Sundays (days 7 and
\* 14) accrue before the trip, the balance at the check is 72, the trip costs
\* 5 days / 40 hours and is affordable, and the balance after the deduction
\* and at the end is 32.
C1_TwoSundaysBalance72 ==
    Scenario(40) =>
        /\ AtCheck =>
              /\ pto_balance = 72
              /\ accrued = <<BeforeEvent(7), BeforeEvent(14)>>
              /\ pto_days_needed = 5 /\ pto_hours_needed = 40
        /\ rows # <<>> =>
              rows[1].days = 5 /\ rows[1].hours = 40 /\ rows[1].status = StatusOk
        /\ JustChecked => pto_balance = 32
        /\ pc = "done" =>
              /\ pto_balance = 32
              /\ Len(rows) = 1
              /\ accrued = <<BeforeEvent(7), BeforeEvent(14)>>

C1_Witness == Scenario(40) /\ pc = "done" /\ pto_balance = 32 /\ Len(rows) = 1

\* C2 as stated: in the ski-trip scenario with bank 0 the balance at the check
\* is 16 (one accrual), the trip costs 40 hours and is unaffordable, and the
\* balance stays 16 after the check.
C2_OneAccrualBalance16 ==
    Scenario(0) =>
        /\ AtCheck => pto_balance = 16 /\ Len(accrued) = 1 /\ pto_hours_needed = 40
        /\ rows # <<>> => rows[1].hours = 40 /\ rows[1].status = StatusNo
        /\ JustChecked => pto_balance = 16

\* C2 amended: in the ski-trip scenario with bank 0 the balance at the check
\* is 32 (two accruals), the trip costs 40 hours and is unaffordable, and the
\* balance stays 32 after the check.
C2_TwoAccrualsBalance32 ==
    Scenario(0) =>
        /\ AtCheck => pto_balance = 32 /\ Len(accrued) = 2 /\ pto_hours_needed = 40
        /\ rows # <<>> => rows[1].hours = 40 /\ rows[1].status = StatusNo
        /\ JustChecked => pto_balance = 32
        /\ pc = "done" => pto_balance = 32

C2_Witness ==
    Scenario(0) /\ JustChecked /\ rows[1].status = StatusNo /\ pto_balance = 32

\* C3 as stated: each calendar Sunday is credited at most once in a run, the
\* two accrual passes counted together.
C3_EachSundayAtMostOnce ==
    \A i \in DOMAIN accrued : \A j \in DOMAIN accrued :
        i # j => accrued[i].date # accrued[j].date

\* C4: a vacation is marked affordable iff the balance at its check covers its
\* chargeable hours; an unaffordable verdict leaves the balance unchanged; and
\* every retained vacation still gets its verdict, whatever the earlier ones.
C4_AffordableIffCovered ==
    /\ [][(pc = "accrue" /\ pc' = "scan") =>
            LET r == rows'[Len(rows')] IN
            /\ Len(rows') = Len(rows) + 1
            /\ r.status \in {StatusOk, StatusNo}
            /\ r.status = StatusOk <=> pto_balance >= r.hours
            /\ r.status = StatusOk => pto_balance' = pto_balance - r.hours
            /\ r.status = StatusNo => pto_balance' = pto_balance]_vars
    /\ [](pc = "done" => Len(rows) = Len(vacations))

C4_Witness ==
    /\ pc = "done"
    /\ Len(rows) = 2
    /\ rows[1].status = StatusNo
    /\ rows[2].status = StatusOk /\ rows[2].hours > 0

\* C5: once the balance is initialised, and so at the end of the run, it is
\* bank + weeklyRate x (accrual events) - (hours of the affordable vacations).
C5_BalanceConservation ==
    Simulating =>
        pto_balance = pto_bank + pto_accrual_per_week * Len(accrued)
                               - SumAffordable(rows)

C5_Witness ==
    /\ pc = "done"
    /\ \E i \in DOMAIN rows : rows[i].status = StatusNo
    /\ \E i \in DOMAIN rows : rows[i].status = StatusOk /\ rows[i].hours > 0
    /\ \E i \in DOMAIN accrued : accrued[i].pass = "before"
    /\ \E i \in DOMAIN accrued : accrued[i].pass = "during"

\* C6: the days of a vacation are the dates of [start, end] that are neither
\* Saturday, Sunday nor a holiday, and its hours are 8 times its days.
C6_VacationCost ==
    /\ \A i \in DOMAIN rows :
          /\ rows[i].days = Cardinality(WorkDates(rows[i], holidays))
          /\ rows[i].hours = rows[i].days * 8
    /\ AtCheck =>
          /\ pto_days_needed = Cardinality(WorkDates(vacations[idx], holidays))
          /\ pto_hours_needed = pto_days_needed * 8

C6_Witness ==
    /\ rows # <<>>
    /\ rows[1].start = 15 /\ rows[1].end = 19
    /\ 17 \in holidays
    /\ rows[1].days = 4 /\ rows[1].hours = 32

\* C7 as stated: a vacation made only of Saturdays, Sundays and holidays costs
\* 0 days and is marked affordable, whatever the bank and the rate.
C7_FreeVacationAffordable ==
    \A i \in DOMAIN rows :
        WorkDates(rows[i], holidays) = {} =>
            rows[i].days = 0 /\ rows[i].status = StatusOk

\* C8: at the end of the run the outcomes are exactly the input vacations with
\* end > today, one each, in ascending (start, end) order; no outcome and no
\* balance change belongs to a vacation with end <= today.
C8_OutcomesAreFutureVacations ==
    /\ Terminated =>
          /\ Len(rows) = Cardinality({i \in DOMAIN sched : sched[i].end > today})
          /\ \A i \in DOMAIN sched :
                Occurrences(rows, sched[i])
                    = (IF sched[i].end > today THEN Occurrences(sched, sched[i]) ELSE 0)
          /\ \A i \in DOMAIN rows : \A j \in DOMAIN rows :
                i < j => ~VacLess(rows[j], rows[i])
    /\ \A i \in DOMAIN rows : rows[i].end > today
    /\ \A i \in DOMAIN accrued : vacations[accrued[i].vac].end > today
    /\ \A i \in DOMAIN vacations : vacations[i].end > today

C8_Witness ==
    /\ pc = "done"
    /\ Len(sched) = 2
    /\ sched[2].end = today
    /\ sched[1].end > today
    /\ Len(rows) = 1

\* C9: when no input vacation has end > today the run never enters the
\* simulation: it ends with exit 0, no outcome, no accrual event, and the bank
\* as the only balance.
C9_NothingToSimulate ==
    (\A i \in DOMAIN sched : sched[i].end <= today) =>
        /\ ~Simulating
        /\ rows = <<>>
        /\ accrued = <<>>
        /\ HeldBalance = pto_bank

C9_Witness ==
    /\ pc = "exit0"
    /\ Len(sched) = 2
    /\ sched[1].end = today
    /\ sched[2].end < today

\* C10: a first vacation that starts on today + 1 gets no accrual event from
\* the pre-vacation pass, on any weekday of today, so its check sees the bank.
C10_NoAccrualBeforeTomorrow ==
    (vacations # <<>> /\ vacations[1].start = today + 1) =>
        /\ \A i \in DOMAIN accrued :
              ~(accrued[i].vac = 1 /\ accrued[i].pass = "before")
        /\ (pc = "accrue" /\ idx = 1) => pto_balance = pto_bank

C10_Witness ==
    /\ Weekday(today) = Sat
    /\ vacations # <<>> /\ vacations[1].start = today + 1
    /\ idx = 1 /\ JustChecked

\* C11: after initialisation the cursor is the first Sunday strictly later
\* than today (today + 7 on a Sunday), after each vacation it is the first
\* Sunday strictly later than that vacation's end, and wherever the
\* pre-vacation pass reads it, it is a Sunday.
C11_CursorOnSundays ==
    /\ (pc = "for" /\ idx = 1) =>
          /\ current_date = FirstSundayAfter(today)
          /\ Weekday(today) = Sun => current_date = today + 7
    /\ (pc \in {"for", "done"} /\ idx > 1) =>
          current_date = FirstSundayAfter(vacations[idx - 1].end)
    /\ pc \in {"for", "count", "accrue", "scan", "done"} =>
          Weekday(current_date) = Sun

C11_Witness ==
    /\ Weekday(today) = Sun
    /\ pc = "for" /\ idx = 2
    /\ current_date > today + 7

\* C12 as stated: the pre-vacation pass credits only Sundays strictly before
\* vacation.start, and a Sunday equal to vacation.start is credited exactly
\* once in the run, by the in-vacation pass of that vacation.
C12_StartSundayCreditedOnce ==
    /\ \A i \in DOMAIN accrued :
          accrued[i].pass = "before" =>
              /\ Weekday(accrued[i].date) = Sun
              /\ accrued[i].date < vacations[accrued[i].vac].start
    /\ \A k \in DOMAIN vacations :
          (Weekday(vacations[k].start) = Sun /\ ScannedPast(k, vacations[k].start)) =>
              /\ Cardinality(Events(LAMBDA e : e.date = vacations[k].start)) = 1
              /\ \A i \in Events(LAMBDA e : e.date = vacations[k].start) :
                    accrued[i].pass = "during" /\ accrued[i].vac = k

\* C13 as stated: at the check of a vacation the balance is the bank plus the
\* accruals of Sundays strictly before its start minus the deductions of the
\* earlier affordable vacations; the accruals of the Sundays inside the
\* vacation come only after its verdict.
C13_VerdictBeforeOwnSundays ==
    /\ AtCheck =>
          /\ \A i \in DOMAIN accrued : accrued[i].date < vacations[idx].start
          /\ pto_balance = pto_bank + pto_accrual_per_week * Len(accrued)
                                    - SumAffordable(rows)
    /\ \A i \in DOMAIN accrued :
          accrued[i].pass = "during" => accrued[i].vac <= Len(rows)

\* C14: once the in-vacation pass of a vacation is over it has credited each
\* Sunday of [start, end] exactly once, holiday or not, affordable or not,
\* and nothing else.
C14_InVacationSundays ==
    \A k \in DOMAIN vacations :
        ScannedPast(k, vacations[k].end) =>
            /\ \A d \in vacations[k].start..vacations[k].end :
                  Cardinality(Events(LAMBDA e :
                      e.pass = "during" /\ e.vac = k /\ e.date = d))
                    = (IF Weekday(d) = Sun THEN 1 ELSE 0)
            /\ \A i \in Events(LAMBDA e : e.pass = "during" /\ e.vac = k) :
                  accrued[i].date \in vacations[k].start..vacations[k].end
            /\ pc = "resync" =>
                  pto_balance = pto_bank - SumAffordable(rows)
                                + pto_accrual_per_week * Len(accrued)

C14_Witness ==
    /\ pc = "done"
    /\ Len(rows) = 1
    /\ rows[1].status = StatusNo
    /\ rows[1].end = 14
    /\ 14 \in holidays
    /\ \E i \in DOMAIN accrued : accrued[i].pass = "during" /\ accrued[i].date = 14

\* C15: when the retained vacations all start after today and do not overlap,
\* the dates credited in the run are exactly the Sundays d with
\* today < d <= end of the last vacation, each once, and the final balance is
\* bank + weeklyRate x (their number) - (hours of the affordable vacations).
C15_DisjointExactlyOnce ==
    (pc = "done" /\ DisjointFuture) =>
        LET credited == SundaysIn(today + 1, vacations[Len(vacations)].end) IN
        /\ {accrued[i].date : i \in DOMAIN accrued} = credited
        /\ Len(accrued) = Cardinality(credited)
        /\ pto_balance = pto_bank + pto_accrual_per_week * Cardinality(credited)
                                  - SumAffordable(rows)

C15_Witness ==
    /\ pc = "done"
    /\ DisjointFuture
    /\ Len(vacations) = 2
    /\ \E i \in DOMAIN accrued : accrued[i].pass = "before" /\ accrued[i].vac = 2
    /\ \E i \in DOMAIN accrued : accrued[i].pass = "during"
    /\ \E i \in DOMAIN rows : rows[i].status = StatusOk /\ rows[i].hours > 0

\* C16 as stated: every accrual event of a run is attributed to a Sunday
\* strictly after today, also when a vacation is already under way.
C16_NoRetroactiveAccrual ==
    \A i \in DOMAIN accrued : accrued[i].date > today

\* C17 as stated: the cursor never moves backward: each 7-day step and each
\* post-vacation reset (taken at its settled value, the first Sunday after
\* vacation.end) leaves it at or after its previous value.
C17_CursorNeverBackward ==
    /\ [][(pc = "accrue" /\ pc' = "accrue") => current_date' >= current_date]_vars
    /\ [][(pc = "scan" /\ pc' = "resync") =>
             FirstSundayAfter(vacations[idx].end) >= current_date]_vars

\* C18: with bank >= 0 and weeklyRate >= 0 the balance is >= 0 in every state
\* of the simulation.
C18_BalanceNonNegative ==
    (pto_bank >= 0 /\ pto_accrual_per_week >= 0 /\ Simulating) => pto_balance >= 0

C18_Witness ==
    /\ pto_bank >= 0
    /\ JustChecked
    /\ rows[idx].status = StatusOk /\ rows[idx].hours > 0
    /\ pto_balance = 0

\* C19: every run eventually finishes with one outcome per future vacation;
\* each pre-vacation iteration runs only while the cursor is before
\* vacation.start and moves it by exactly 7 days, and each day scan moves its
\* date by one day while it is not past vacation.end.
C19_Terminates ==
    /\ <>(Terminated /\ Len(rows) = Cardinality(FutureVacations))
    /\ [][(pc = "accrue" /\ pc' = "accrue") =>
             /\ current_date < vacations[idx].start
             /\ current_date' = current_date + 7]_vars
    /\ [][(pc = "count" /\ pc' = "count") =>
             date <= vacations[idx].end /\ date' = date + 1]_vars
    /\ [][(pc = "scan" /\ pc' = "scan") =>
             vacation_date <= vacations[idx].end /\ vacation_date' = vacation_date + 1]_vars

C19_Witness ==
    /\ pc = "done"
    /\ Len(rows) = 2
    /\ Events(LAMBDA e : e.pass = "before") # {}
    /\ Events(LAMBDA e : e.pass = "during") # {}

====
